---- MODULE Spec2Model ----
(***************************************************************************)
(* Model of keithley6485.py: the Keithley6485 serial driver class          *)
(* (connect, disconnect, write, query, idn, reset, fastjob), the serial    *)
(* channel it drives and the instrument at the other end of the line.     *)
(*                                                                         *)
(* Text is a sequence of one-character strings, bytes are a sequence of    *)
(* integers 0..255; encode/decode/strip convert between them as Python    *)
(* does.  A call of query, idn or fastjob runs one transport operation    *)
(* per step, so that the instrument can deliver a reply between steps.    *)
(***************************************************************************)
EXTENDS Integers, Sequences, FiniteSets, TLC

VARIABLES
    connected,    \* self.connected
    ser,          \* self.ser: 0 is None, otherwise the index of a channel in chan
    timeout,      \* self.timeout, the base read timeout given to __init__
    chan,         \* every serial.Serial object created so far: [open, timeout]
    inbuf,        \* lines waiting in the input buffer of the port
    dev_out,      \* reply lines the instrument has produced, still on the way
    dev_points,   \* instrument: buffer size set by the last TRAC:POIN
    dev_in,       \* instrument: command lines received, not yet executed
    dev_lag,      \* instrument: command lines it may be behind with (0: none)
    op,           \* the call in progress: "idle", "query", "idn", "fastjob"
    pc,           \* fastjob: index of the statement to execute next (0: none)
    qpc,          \* query: "none", "check", "clear", "write", "read"
    cmd,          \* query, write: the argument
    qstart,       \* query: length of log when the query was entered
    n,            \* fastjob: argument n
    nplc,         \* fastjob: argument nplc, in hundredths of a power-line cycle
    rang,         \* fastjob: argument rang, in ten-thousandths of an ampere
    old_timeout,  \* fastjob: local old_timeout (0: not assigned)
    opc_reply,    \* fastjob: the throwaway local _
    data,         \* fastjob: local data
    exc,          \* fastjob: exception pending while the finally block runs
    result,       \* outcome of the last finished call
    last,         \* name of the call in progress or last finished
    log           \* transport operations of the call in progress or last finished

vars == <<connected, ser, timeout, chan, inbuf, dev_out, dev_points, dev_in, dev_lag, op, pc, qpc,
          cmd, qstart, n, nplc, rang, old_timeout, opc_reply, data, exc, result, last, log>>

(***************************************************************************)
(* Bounds and input sets                                                   *)
(***************************************************************************)
MaxOpens == 2
\* reply lines of the instrument on the way or unread at the port
MaxInFlight == 1
\* command lines the instrument may be behind with
MaxBacklog == 2
\* base read timeouts, in seconds
Timeouts == {2, 15}
\* arguments of fastjob: n, nplc in hundredths, rang in ten-thousandths
FastjobArgs == {<<1, 1, 20>>, <<10, 100, 20>>, <<10, 100, 200>>}

(***************************************************************************)
(* Text and bytes                                                          *)
(***************************************************************************)
\* the printable ASCII characters, codes 32..126 (code 96 is spelled "grave")
AsciiTable == <<" ", "!", "\"", "#", "$", "%", "&", "'", "(", ")", "*", "+", ",", "-", ".", "/", "0", "1", "2", "3", "4", "5", "6", "7", "8", "9", ":", ";", "<", "=", ">", "?", "@", "A", "B", "C", "D", "E", "F", "G", "H", "I", "J", "K", "L", "M", "N", "O", "P", "Q", "R", "S", "T", "U", "V", "W", "X", "Y", "Z", "[", "\\", "]", "^", "_", "grave", "a", "b", "c", "d", "e", "f", "g", "h", "i", "j", "k", "l", "m", "n", "o", "p", "q", "r", "s", "t", "u", "v", "w", "x", "y", "z", "{", "|", "}", "~">>

Ord(c) ==
    IF c = "\t" THEN 9
    ELSE IF c = "\n" THEN 10
    ELSE IF c = "\f" THEN 12
    ELSE IF c = "\r" THEN 13
    ELSE 31 + (CHOOSE i \in 1..Len(AsciiTable) : AsciiTable[i] = c)

Chr(b) ==
    IF b = 9 THEN "\t"
    ELSE IF b = 10 THEN "\n"
    ELSE IF b = 12 THEN "\f"
    ELSE IF b = 13 THEN "\r"
    ELSE AsciiTable[b - 31]

Whitespace == {" ", "\t", "\n", "\f", "\r"}

\* str.encode() of ASCII text
encode(s) == [i \in 1..Len(s) |-> Ord(s[i])]

\* bytes.decode(errors="ignore"): bytes that are not text are dropped
decode_ignore(bs) ==
    LET text == SelectSeq(bs, LAMBDA b : b \in {9, 10, 12, 13} \cup (32..126))
    IN  [i \in 1..Len(text) |-> Chr(text[i])]

\* str.strip()
strip(s) ==
    LET keep  == {i \in 1..Len(s) : s[i] \notin Whitespace}
        first == CHOOSE i \in keep : \A j \in keep : i <= j
        final == CHOOSE i \in keep : \A j \in keep : j <= i
    IN  IF keep = {} THEN <<>> ELSE SubSeq(s, first, final)

Digit(d) == AsciiTable[17 + d]

\* str(k) of a non-negative int
RECURSIVE str_int(_)
str_int(k) == IF k < 10 THEN <<Digit(k)>> ELSE str_int(k \div 10) \o <<Digit(k % 10)>>

\* str(x) of the float x = h / 100
str_float(h) ==
    LET whole == str_int(h \div 100)
        frac  == h % 100
    IN  IF frac % 10 = 0
        THEN whole \o <<".", Digit(frac \div 10)>>
        ELSE whole \o <<".", Digit(frac \div 10), Digit(frac % 10)>>

(* "*RST" *)
CMD_RST == <<"*", "R", "S", "T">>
(* "TRIG:DEL 0" *)
CMD_TRIG_DEL == <<"T", "R", "I", "G", ":", "D", "E", "L", " ", "0">>
(* "TRIG:COUN " *)
PFX_TRIG_COUN == <<"T", "R", "I", "G", ":", "C", "O", "U", "N", " ">>
(* "NPLC " *)
PFX_NPLC == <<"N", "P", "L", "C", " ">>
(* "SENS:CURR:RANG:AUTO ON" *)
CMD_RANG_AUTO == <<"S", "E", "N", "S", ":", "C", "U", "R", "R", ":", "R", "A", "N", "G", ":", "A", "U", "T", "O", " ", "O", "N">>
(* "SYST:ZCH OFF" *)
CMD_ZCH_OFF == <<"S", "Y", "S", "T", ":", "Z", "C", "H", " ", "O", "F", "F">>
(* "SYST:AZER:STAT OFF" *)
CMD_AZER_OFF == <<"S", "Y", "S", "T", ":", "A", "Z", "E", "R", ":", "S", "T", "A", "T", " ", "O", "F", "F">>
(* "DISP:ENAB OFF" *)
CMD_DISP_OFF == <<"D", "I", "S", "P", ":", "E", "N", "A", "B", " ", "O", "F", "F">>
(* "*CLS" *)
CMD_CLS == <<"*", "C", "L", "S">>
(* "TRAC:POIN " *)
PFX_TRAC_POIN == <<"T", "R", "A", "C", ":", "P", "O", "I", "N", " ">>
(* "TRAC:CLE" *)
CMD_TRAC_CLE == <<"T", "R", "A", "C", ":", "C", "L", "E">>
(* "TRAC:FEED:CONT NEXT" *)
CMD_TRAC_FEED == <<"T", "R", "A", "C", ":", "F", "E", "E", "D", ":", "C", "O", "N", "T", " ", "N", "E", "X", "T">>
(* "STAT:MEAS:ENAB 512" *)
CMD_STAT_MEAS == <<"S", "T", "A", "T", ":", "M", "E", "A", "S", ":", "E", "N", "A", "B", " ", "5", "1", "2">>
(* "*SRE 1" *)
CMD_SRE == <<"*", "S", "R", "E", " ", "1">>
(* "*OPC?" *)
CMD_OPC == <<"*", "O", "P", "C", "?">>
(* "FORM:ELEM READ,TIME,STAT" *)
CMD_FORM_ELEM == <<"F", "O", "R", "M", ":", "E", "L", "E", "M", " ", "R", "E", "A", "D", ",", "T", "I", "M", "E", ",", "S", "T", "A", "T">>
(* "INIT" *)
CMD_INIT == <<"I", "N", "I", "T">>
(* "DISP:ENAB ON" *)
CMD_DISP_ON == <<"D", "I", "S", "P", ":", "E", "N", "A", "B", " ", "O", "N">>
(* "TRAC:DATA?" *)
CMD_TRAC_DATA == <<"T", "R", "A", "C", ":", "D", "A", "T", "A", "?">>
(* "*IDN?" *)
CMD_IDN == <<"*", "I", "D", "N", "?">>

\* the two-character line ending write() appends
CRLF == <<"\r", "\n">>

(***************************************************************************)
(* The instrument                                                          *)
(***************************************************************************)
(* "KEITHLEY,6485,1,A01" *)
IDN_TEXT == <<"K", "E", "I", "T", "H", "L", "E", "Y", ",", "6", "4", "8", "5", ",", "1", ",", "A", "0", "1">>
(* "1" *)
OPC_TEXT == <<"1">>

\* one stored point: reading with its unit suffix, relative time, status
Triplet(i) == str_int(i) \o <<"A", ",">> \o str_int(i) \o <<",", "0">>

\* the trace of k+1 points
RECURSIVE Payload(_)
Payload(k) == IF k = 0 THEN Triplet(0) ELSE Payload(k - 1) \o <<",">> \o Triplet(k)

starts_with(s, p) == Len(s) >= Len(p) /\ SubSeq(s, 1, Len(p)) = p

RECURSIVE parse_int(_)
parse_int(s) ==
    IF s = <<>> THEN 0
    ELSE 10 * parse_int(SubSeq(s, 1, Len(s) - 1)) + (Ord(s[Len(s)]) - Ord("0"))

\* a complete command line ends with a line feed
received_text(bs) ==
    IF bs # <<>> /\ bs[Len(bs)] = 10 THEN strip(decode_ignore(bs)) ELSE <<>>

is_query(text) == text # <<>> /\ text[Len(text)] = "?"

answer(text, points) ==
    IF text = CMD_IDN THEN IDN_TEXT
    ELSE IF text = CMD_OPC THEN OPC_TEXT
    ELSE IF text = CMD_TRAC_DATA THEN Payload(points)
    ELSE <<>>

\* the instrument ends its lines with carriage-return, line-feed
reply_line(text) == encode(text) \o <<13, 10>>

points_after(text, points) ==
    IF starts_with(text, PFX_TRAC_POIN)
    THEN parse_int(SubSeq(text, Len(PFX_TRAC_POIN) + 1, Len(text)))
    ELSE points

MarkStale(q) == [i \in DOMAIN q |-> [q[i] EXCEPT !.stale = TRUE]]

MarkUnawaited(q) == [i \in DOMAIN q |-> [q[i] EXCEPT !.awaited = FALSE]]

\* the instrument executes one command line e: a TRAC:POIN sets the buffer
\* size, a query puts its reply on the way
device_execute(e) ==
    LET pts == points_after(e.text, dev_points)
    IN  /\ dev_points' = pts
        /\ dev_out' = IF is_query(e.text) /\ answer(e.text, pts) # <<>>
                         /\ Len(dev_out) + Len(inbuf) < MaxInFlight
                      THEN Append(dev_out, [cmd |-> e.text, line |-> reply_line(answer(e.text, pts)),
                                            stale |-> ~e.awaited])
                      ELSE dev_out

\* the instrument takes the bytes of one write and executes its commands in
\* the order received, never more than dev_lag lines behind; awaited: a query
\* is going to read the reply
device_receive(bs, awaited) ==
    LET q == Append(dev_in, [text |-> received_text(bs), awaited |-> awaited])
    IN  IF Len(q) > dev_lag
        THEN /\ dev_in' = Tail(q)
             /\ device_execute(Head(q))
        ELSE /\ dev_in' = q
             /\ UNCHANGED <<dev_out, dev_points>>

(***************************************************************************)
(* Call frames                                                             *)
(***************************************************************************)
Ok(v) == [status |-> "ok", value |-> v, error |-> "none"]
Raised(e) == [status |-> "raised", value |-> <<>>, error |-> e]
Running == [status |-> "running", value |-> <<>>, error |-> "none"]

\* the timeout fastjob sets for TRAC:DATA?
WideTimeout == 10

Stmt(kind, c, dst, try) == [kind |-> kind, cmd |-> c, dst |-> dst, try |-> try]

\* f"TRIG:COUN {n}" with the default count in place of the argument
trig_count_default(n_) == PFX_TRIG_COUN \o str_int(100)

\* f"TRIG:COUN {n}"
trig_count_cmd(n_) == PFX_TRIG_COUN \o str_int(n_)

(* "RANG " *)
PFX_RANG == <<"R", "A", "N", "G", " ">>

\* self.write(f"RANG {rang}") as a live statement
range_stmts_sent(rang_) == << Stmt("write", PFX_RANG \o str_int(rang_), "", FALSE) >>

\* #self.write(f"RANG {rang}"): commented out, no statement
range_stmts(rang_) == << >>

\* the statements of fastjob, in source order
fastjob_program(n_, nplc_, rang_) == <<
    Stmt("write", CMD_RST, "", FALSE),
    Stmt("write", CMD_TRIG_DEL, "", FALSE),
    Stmt("write", trig_count_cmd(n_), "", FALSE),
    Stmt("write", PFX_NPLC \o str_float(nplc_), "", FALSE) >>
  \o range_stmts(rang_) \o <<
    Stmt("write", CMD_RANG_AUTO, "", FALSE),
    Stmt("write", CMD_ZCH_OFF, "", FALSE),
    Stmt("write", CMD_AZER_OFF, "", FALSE),
    Stmt("write", CMD_DISP_OFF, "", FALSE),
    Stmt("write", CMD_CLS, "", FALSE),
    Stmt("write", PFX_TRAC_POIN \o str_int(n_), "", FALSE),
    Stmt("write", CMD_TRAC_CLE, "", FALSE),
    Stmt("write", CMD_TRAC_FEED, "", FALSE),
    Stmt("write", CMD_STAT_MEAS, "", FALSE),
    Stmt("write", CMD_SRE, "", FALSE),
    Stmt("query", CMD_OPC, "_", FALSE),
    Stmt("write", CMD_FORM_ELEM, "", FALSE),
    Stmt("write", CMD_INIT, "", FALSE),
    Stmt("write", CMD_DISP_ON, "", FALSE),
    Stmt("get_timeout", <<>>, "old_timeout", FALSE),
    Stmt("set_timeout", <<>>, "", FALSE),
    Stmt("query", CMD_TRAC_DATA, "data", TRUE),
    Stmt("finally", <<>>, "", FALSE),
    Stmt("return", <<>>, "data", FALSE) >>

Program == fastjob_program(n, nplc, rang)
Cur == Program[pc]
FinallyPc == CHOOSE i \in 1..Len(Program) : Program[i].kind = "finally"

\* write() that ends the line with a line feed only
write_bytes_lf(c) == encode(c \o <<"\n">>)

\* the bytes write() hands to the port
write_bytes(c) == encode(c \o CRLF)

\* the text query() returns for the bytes readline() gave
query_value(bs) == strip(decode_ignore(bs))

\* query without its reset_input_buffer() line
query_next_noclear(q) ==
    IF q = "check" THEN "write"
    ELSE IF q = "write" THEN "read"
    ELSE "none"

\* the order of the statements of query
query_next(q) ==
    IF q = "check" THEN "clear"
    ELSE IF q = "clear" THEN "write"
    ELSE IF q = "write" THEN "read"
    ELSE "none"

\* one operation on the port: the handle used, whether the session counted
\* as connected and the port was open, the read timeout in effect after it,
\* the bytes moved, whether it succeeded, and for a read whether the line is
\* the reply the query was waiting for
LogEntry(kind, bs, t, ok, fresh) ==
    [op |-> kind, ch |-> ser, conn |-> connected, open |-> (ser # 0 /\ chan[ser].open),
     tmo |-> t, data |-> bs, ok |-> ok, fresh |-> fresh]

CurTimeout == IF ser # 0 THEN chan[ser].timeout ELSE 0

\* an exception leaves the call, or enters the finally block of fastjob
Raise(e) ==
    IF op = "fastjob" /\ Cur.try
    THEN /\ op' = op
         /\ pc' = FinallyPc
         /\ qpc' = "none"
         /\ exc' = e
         /\ result' = result
    ELSE /\ op' = "idle"
         /\ pc' = 0
         /\ qpc' = "none"
         /\ exc' = "none"
         /\ result' = Raised(e)

\* the call returns v to the caller of the session
Finish(v) ==
    /\ op' = "idle"
    /\ pc' = 0
    /\ qpc' = "none"
    /\ exc' = "none"
    /\ result' = Ok(v)

(***************************************************************************)
(* The session                                                             *)
(***************************************************************************)
\* what is fixed once the session is constructed and the instrument chosen
setup == <<timeout, dev_lag>>
session == <<connected, ser, chan, setup>>
wire == <<inbuf, dev_out, dev_points, dev_in>>
args == <<n, nplc, rang>>
locals == <<old_timeout, opc_reply, data>>
frame == <<op, pc, qpc, exc>>

\* arguments of the direct calls of write and query
WriteCommands == {CMD_CLS, CMD_IDN}
QueryCommands == {CMD_OPC}

\* the session as constructed, the instrument idle
Start ==
    /\ connected = FALSE
    /\ ser = 0
    /\ timeout \in Timeouts
    /\ chan = <<>>
    /\ inbuf = <<>>
    /\ dev_out = <<>>
    /\ dev_points = 1
    /\ dev_in = <<>>
    /\ op = "idle"
    /\ pc = 0
    /\ qpc = "none"
    /\ cmd = <<>>
    /\ qstart = 0
    /\ n = 0
    /\ nplc = 0
    /\ rang = 0
    /\ old_timeout = 0
    /\ opc_reply = <<>>
    /\ data = <<>>
    /\ exc = "none"
    /\ result = Ok(<<>>)
    /\ last = "none"
    /\ log = <<>>

\* an instrument that executes every command line on receipt
Init == Start /\ dev_lag = 0

\* the caller starts a call: nothing of an earlier call is left
Begin(name) ==
    /\ op = "idle"
    /\ last' = name
    /\ old_timeout' = 0
    /\ opc_reply' = <<>>
    /\ data' = <<>>
    /\ qstart' = 0

\* a call that is not fastjob has no n, nplc, rang
NoArgs == n' = 0 /\ nplc' = 0 /\ rang' = 0

\* serial.Serial(port, baudrate, timeout=self.timeout) opens the port or raises
\* connect that marks the session connected before it opens the port
connect_flag_first(ok) ==
    /\ Begin("connect")
    /\ log' = <<>>
    /\ connected' = TRUE
    /\ IF ok
       THEN /\ Len(chan) < MaxOpens
            /\ chan' = Append(chan, [open |-> TRUE, timeout |-> timeout])
            /\ ser' = Len(chan) + 1
            /\ inbuf' = <<>>
            /\ Finish(<<>>)
       ELSE /\ UNCHANGED <<chan, ser, inbuf>>
            /\ Raise("SerialException")
    /\ cmd' = <<>>
    /\ NoArgs
    /\ UNCHANGED <<setup, dev_out, dev_points, dev_in>>

connect(ok) ==
    /\ Begin("connect")
    /\ log' = <<>>
    /\ IF ok
       THEN /\ Len(chan) < MaxOpens
            /\ chan' = Append(chan, [open |-> TRUE, timeout |-> timeout])
            /\ ser' = Len(chan) + 1
            /\ connected' = TRUE
            /\ inbuf' = <<>>
            /\ Finish(<<>>)
       ELSE /\ UNCHANGED <<chan, ser, connected, inbuf>>
            /\ Raise("SerialException")
    /\ cmd' = <<>>
    /\ NoArgs
    /\ UNCHANGED <<setup, dev_out, dev_points, dev_in>>

\* disconnect that closes the port and keeps the handle and the flag
disconnect_close_only ==
    /\ Begin("disconnect")
    /\ log' = <<>>
    /\ IF ser # 0
       THEN /\ chan' = [chan EXCEPT ![ser].open = FALSE]
            /\ inbuf' = <<>>
       ELSE UNCHANGED <<chan, inbuf>>
    /\ UNCHANGED <<ser, connected>>
    /\ Finish(<<>>)
    /\ cmd' = <<>>
    /\ NoArgs
    /\ UNCHANGED <<setup, dev_out, dev_points, dev_in>>

\* disconnect without the test for None
disconnect_unguarded ==
    /\ Begin("disconnect")
    /\ log' = <<>>
    /\ IF ser # 0
       THEN /\ chan' = [chan EXCEPT ![ser].open = FALSE]
            /\ ser' = 0
            /\ inbuf' = <<>>
            /\ connected' = FALSE
            /\ Finish(<<>>)
       ELSE /\ UNCHANGED <<chan, ser, inbuf, connected>>
            /\ Raise("AttributeError")
    /\ cmd' = <<>>
    /\ NoArgs
    /\ UNCHANGED <<setup, dev_out, dev_points, dev_in>>

disconnect ==
    /\ Begin("disconnect")
    /\ log' = <<>>
    /\ IF ser # 0
       THEN /\ chan' = [chan EXCEPT ![ser].open = FALSE]
            /\ ser' = 0
            /\ inbuf' = <<>>
       ELSE UNCHANGED <<chan, ser, inbuf>>
    /\ connected' = FALSE
    /\ Finish(<<>>)
    /\ cmd' = <<>>
    /\ NoArgs
    /\ UNCHANGED <<setup, dev_out, dev_points, dev_in>>

\* write without its test
write_guard_skipped == TRUE

\* the test at the head of write
write_guard == connected

\* the test at the head of query
query_guard == connected

write_error == IF ~write_guard THEN "RuntimeError" ELSE "AttributeError"

\* the body of write(c) after base: the operations logged so far; ok: the
\* port takes the bytes; awaited: a query is going to read the reply
write_effect(c, ok, base, awaited) ==
    IF ~write_guard \/ ser = 0
    THEN /\ log' = base
         /\ UNCHANGED <<dev_out, dev_points, dev_in>>
    ELSE /\ log' = Append(base, LogEntry("write", write_bytes(c), CurTimeout, ok, FALSE))
         /\ IF ok THEN device_receive(write_bytes(c), awaited)
                  ELSE UNCHANGED <<dev_out, dev_points, dev_in>>

write_raises(ok) == ~write_guard \/ ser = 0 \/ ~ok

write_exception == IF ~write_guard \/ ser = 0 THEN write_error ELSE "SerialException"

write(c, ok) ==
    /\ Begin("write")
    /\ cmd' = c
    /\ NoArgs
    /\ write_effect(c, ok, <<>>, FALSE)
    /\ IF write_raises(ok) THEN Raise(write_exception) ELSE Finish(<<>>)
    /\ UNCHANGED <<session, inbuf>>

reset(ok) ==
    /\ Begin("reset")
    /\ cmd' = CMD_RST
    /\ NoArgs
    /\ write_effect(CMD_RST, ok, <<>>, FALSE)
    /\ IF write_raises(ok) THEN Raise(write_exception) ELSE Finish(<<>>)
    /\ UNCHANGED <<session, inbuf>>

query_call(c) ==
    /\ Begin("query")
    /\ cmd' = c
    /\ log' = <<>>
    /\ NoArgs
    /\ op' = "query"
    /\ qpc' = "check"
    /\ result' = Running
    /\ UNCHANGED <<session, wire, pc, exc>>

idn_call ==
    /\ Begin("idn")
    /\ cmd' = CMD_IDN
    /\ log' = <<>>
    /\ NoArgs
    /\ op' = "idn"
    /\ qpc' = "check"
    /\ result' = Running
    /\ UNCHANGED <<session, wire, pc, exc>>

\* query hands v to its caller
query_return(v) ==
    IF op = "fastjob"
    THEN /\ data' = IF Cur.dst = "data" THEN v ELSE data
         /\ opc_reply' = IF Cur.dst = "_" THEN v ELSE opc_reply
         /\ pc' = pc + 1
         /\ qpc' = "none"
         /\ UNCHANGED <<op, exc, result, old_timeout>>
    ELSE /\ Finish(v)
         /\ UNCHANGED locals

query_check ==
    /\ qpc = "check"
    /\ IF ~query_guard
       THEN Raise("RuntimeError")
       ELSE /\ qpc' = query_next("check")
            /\ UNCHANGED <<op, pc, exc, result>>
    /\ UNCHANGED <<session, wire, args, locals, cmd, qstart, last, log>>

query_clear(ok) ==
    /\ qpc = "clear"
    /\ IF ser = 0
       THEN /\ Raise("AttributeError")
            /\ UNCHANGED <<log, inbuf>>
       ELSE /\ log' = Append(log, LogEntry("clear", <<>>, CurTimeout, ok, FALSE))
            /\ IF ok
               THEN /\ inbuf' = <<>>
                    /\ qpc' = query_next("clear")
                    /\ UNCHANGED <<op, pc, exc, result>>
               ELSE /\ inbuf' = inbuf
                    /\ Raise("SerialException")
    /\ UNCHANGED <<session, dev_out, dev_points, dev_in, args, locals, cmd, qstart, last>>

query_write(ok) ==
    /\ qpc = "write"
    /\ write_effect(cmd, ok, log, TRUE)
    /\ IF write_raises(ok)
       THEN Raise(write_exception)
       ELSE /\ qpc' = query_next("write")
            /\ UNCHANGED <<op, pc, exc, result>>
    /\ UNCHANGED <<session, inbuf, args, locals, cmd, qstart, last>>

\* readline() finds a line in the input buffer
query_read_line ==
    /\ qpc = "read"
    /\ ser # 0
    /\ inbuf # <<>>
    /\ log' = Append(log, LogEntry("read", Head(inbuf).line, CurTimeout, TRUE, ~Head(inbuf).stale))
    /\ inbuf' = MarkStale(Tail(inbuf))
    /\ dev_out' = MarkStale(dev_out)
    /\ dev_in' = MarkUnawaited(dev_in)
    /\ query_return(query_value(Head(inbuf).line))
    /\ UNCHANGED <<session, dev_points, args, cmd, qstart, last>>

\* a query that raises when readline() gives nothing
query_read_timeout_raises ==
    /\ qpc = "read"
    /\ ser # 0
    /\ inbuf = <<>>
    /\ log' = Append(log, LogEntry("read", <<>>, CurTimeout, TRUE, FALSE))
    /\ dev_out' = MarkStale(dev_out)
    /\ dev_in' = MarkUnawaited(dev_in)
    /\ Raise("TimeoutError")
    /\ UNCHANGED <<session, inbuf, dev_points, args, locals, cmd, qstart, last>>

\* readline() gives up after the read timeout with nothing received
query_read_timeout ==
    /\ qpc = "read"
    /\ ser # 0
    /\ inbuf = <<>>
    /\ log' = Append(log, LogEntry("read", <<>>, CurTimeout, TRUE, FALSE))
    /\ dev_out' = MarkStale(dev_out)
    /\ dev_in' = MarkUnawaited(dev_in)
    /\ query_return(query_value(<<>>))
    /\ UNCHANGED <<session, inbuf, dev_points, args, cmd, qstart, last>>

\* readline() raises
query_read_error ==
    /\ qpc = "read"
    /\ IF ser = 0
       THEN /\ Raise("AttributeError")
            /\ UNCHANGED log
       ELSE /\ log' = Append(log, LogEntry("read", <<>>, CurTimeout, FALSE, FALSE))
            /\ Raise("SerialException")
    /\ inbuf' = MarkStale(inbuf)
    /\ dev_out' = MarkStale(dev_out)
    /\ dev_in' = MarkUnawaited(dev_in)
    /\ UNCHANGED <<session, dev_points, args, locals, cmd, qstart, last>>

fastjob_call(a, b, c) ==
    /\ Begin("fastjob")
    /\ n' = a
    /\ nplc' = b
    /\ rang' = c
    /\ log' = <<>>
    /\ op' = "fastjob"
    /\ pc' = 1
    /\ result' = Running
    /\ cmd' = <<>>
    /\ UNCHANGED <<session, wire, qpc, exc>>

AtStmt(kind) == op = "fastjob" /\ qpc = "none" /\ Cur.kind = kind

\* a write of fastjob that is tried a second time when the port refuses the
\* bytes, before the error goes to the caller
fastjob_write_retried(ok) ==
    /\ AtStmt("write")
    /\ write_effect(Cur.cmd, ok,
                    IF ok \/ ~write_guard \/ ser = 0
                    THEN log
                    ELSE Append(log, LogEntry("write", write_bytes(Cur.cmd), CurTimeout, FALSE, FALSE)),
                    FALSE)
    /\ IF write_raises(ok)
       THEN Raise(write_exception)
       ELSE /\ pc' = pc + 1
            /\ UNCHANGED <<op, qpc, exc, result>>
    /\ UNCHANGED <<session, inbuf, args, locals, cmd, qstart, last>>

fastjob_write(ok) ==
    /\ AtStmt("write")
    /\ write_effect(Cur.cmd, ok, log, FALSE)
    /\ IF write_raises(ok)
       THEN Raise(write_exception)
       ELSE /\ pc' = pc + 1
            /\ UNCHANGED <<op, qpc, exc, result>>
    /\ UNCHANGED <<session, inbuf, args, locals, cmd, qstart, last>>

fastjob_query ==
    /\ AtStmt("query")
    /\ cmd' = Cur.cmd
    /\ qstart' = Len(log)
    /\ qpc' = "check"
    /\ UNCHANGED <<session, wire, args, locals, op, pc, exc, result, last, log>>

\* old_timeout = self.ser.timeout
fastjob_get_timeout ==
    /\ AtStmt("get_timeout")
    /\ IF ser = 0
       THEN /\ Raise("AttributeError")
            /\ UNCHANGED <<old_timeout, log>>
       ELSE /\ old_timeout' = chan[ser].timeout
            /\ log' = Append(log, LogEntry("get_timeout", <<>>, CurTimeout, TRUE, FALSE))
            /\ pc' = pc + 1
            /\ UNCHANGED <<op, qpc, exc, result>>
    /\ UNCHANGED <<session, wire, args, opc_reply, data, cmd, qstart, last>>

\* self.ser.timeout = 10
fastjob_set_timeout ==
    /\ AtStmt("set_timeout")
    /\ chan' = [chan EXCEPT ![ser].timeout = WideTimeout]
    /\ log' = Append(log, LogEntry("set_timeout", <<>>, WideTimeout, TRUE, FALSE))
    /\ pc' = pc + 1
    /\ UNCHANGED <<connected, ser, setup, wire, args, locals, cmd, qstart, last, op, qpc, exc, result>>

\* the restore as a plain statement after the query, not in a finally block
fastjob_finally_skipped_on_error ==
    /\ AtStmt("finally")
    /\ IF exc # "none"
       THEN /\ UNCHANGED <<chan, log>>
            /\ op' = "idle"
            /\ pc' = 0
            /\ qpc' = "none"
            /\ exc' = "none"
            /\ result' = Raised(exc)
       ELSE /\ chan' = [chan EXCEPT ![ser].timeout = old_timeout]
            /\ log' = Append(log, LogEntry("set_timeout", <<>>, old_timeout, TRUE, FALSE))
            /\ pc' = pc + 1
            /\ UNCHANGED <<op, qpc, exc, result>>
    /\ UNCHANGED <<connected, ser, setup, wire, args, locals, cmd, qstart, last>>

\* finally: self.ser.timeout = old_timeout, then the pending exception goes on
fastjob_finally ==
    /\ AtStmt("finally")
    /\ chan' = [chan EXCEPT ![ser].timeout = old_timeout]
    /\ log' = Append(log, LogEntry("set_timeout", <<>>, old_timeout, TRUE, FALSE))
    /\ IF exc # "none"
       THEN /\ op' = "idle"
            /\ pc' = 0
            /\ qpc' = "none"
            /\ exc' = "none"
            /\ result' = Raised(exc)
       ELSE /\ pc' = pc + 1
            /\ UNCHANGED <<op, qpc, exc, result>>
    /\ UNCHANGED <<connected, ser, setup, wire, args, locals, cmd, qstart, last>>

\* fastjob that returns the reply of *OPC?
fastjob_return_discarded ==
    /\ AtStmt("return")
    /\ Finish(opc_reply)
    /\ UNCHANGED <<session, wire, args, locals, cmd, qstart, last, log>>

\* return data
fastjob_return ==
    /\ AtStmt("return")
    /\ Finish(data)
    /\ UNCHANGED <<session, wire, args, locals, cmd, qstart, last, log>>

\* a reply line of the instrument arrives at the port
device_deliver ==
    /\ dev_out # <<>>
    /\ dev_out' = Tail(dev_out)
    /\ inbuf' = IF ser # 0 /\ chan[ser].open THEN Append(inbuf, Head(dev_out)) ELSE inbuf
    /\ UNCHANGED <<session, dev_points, dev_in, args, locals, frame, cmd, qstart, result, last, log>>

\* the instrument gets to the next command line it has received
device_process ==
    /\ dev_in # <<>>
    /\ dev_in' = Tail(dev_in)
    /\ device_execute(Head(dev_in))
    /\ UNCHANGED <<session, inbuf, args, locals, frame, cmd, qstart, result, last, log>>

\* self.ser = serial.Serial(...) on a connected session drops the only
\* reference to the earlier port object without closing it: the runtime
\* closes such an object when it reclaims it, at a time of its choosing
finalize ==
    /\ \E i \in 1..Len(chan) :
           /\ i # ser
           /\ chan[i].open
           /\ chan' = [chan EXCEPT ![i].open = FALSE]
    /\ UNCHANGED <<connected, ser, setup, wire, args, locals, frame, cmd, qstart, result, last, log>>

Next ==
    \/ \E ok \in BOOLEAN : connect(ok)
    \/ disconnect
    \/ \E c \in WriteCommands, ok \in BOOLEAN : write(c, ok)
    \/ \E ok \in BOOLEAN : reset(ok)
    \/ \E c \in QueryCommands : query_call(c)
    \/ idn_call
    \/ query_check
    \/ \E ok \in BOOLEAN : query_clear(ok)
    \/ \E ok \in BOOLEAN : query_write(ok)
    \/ query_read_line
    \/ query_read_timeout
    \/ query_read_error
    \/ \E a \in FastjobArgs : fastjob_call(a[1], a[2], a[3])
    \/ \E ok \in BOOLEAN : fastjob_write(ok)
    \/ fastjob_query
    \/ fastjob_get_timeout
    \/ fastjob_set_timeout
    \/ fastjob_finally
    \/ fastjob_return
    \/ device_deliver
    \/ finalize

Spec == Init /\ [][Next]_vars

\* an instrument that may be up to MaxBacklog command lines behind
InitLag == Start /\ dev_lag = MaxBacklog

\* a session that connects and runs fastjob, with such an instrument
NextLag ==
    \/ \E ok \in BOOLEAN : connect(ok)
    \/ query_check
    \/ \E ok \in BOOLEAN : query_clear(ok)
    \/ \E ok \in BOOLEAN : query_write(ok)
    \/ query_read_line
    \/ query_read_timeout
    \/ query_read_error
    \/ \E a \in FastjobArgs : fastjob_call(a[1], a[2], a[3])
    \/ \E ok \in BOOLEAN : fastjob_write(ok)
    \/ fastjob_query
    \/ fastjob_get_timeout
    \/ fastjob_set_timeout
    \/ fastjob_finally
    \/ fastjob_return
    \/ device_deliver
    \/ device_process

SpecLag == InitLag /\ [][NextLag]_vars

(***************************************************************************)
(* main(): the command-line entry point.  Its position is told by the call *)
(* made last and that call's outcome.                                      *)
(***************************************************************************)
\* pico = Keithley6485("COM3"): the default timeout
InitMain == Init /\ timeout = 2

\* the call made last has returned
Returned == op = "idle" /\ result.status = "ok"

\* try: pico.connect()  except serial.SerialException: print(...)
main_connect(ok) ==
    /\ last = "none"
    /\ connect(ok)

\* idn_string = pico.idn(), reached after the try statement whether connect
\* returned or its exception was caught
main_idn ==
    /\ last = "connect"
    /\ idn_call

\* pico.reset()
main_reset(ok) ==
    /\ last = "idn" /\ Returned
    /\ reset(ok)

\* data = pico.fastjob(n=10)
main_fastjob ==
    /\ last = "reset" /\ Returned
    /\ fastjob_call(10, 1, 20)

\* t,I,s = parse_data(data)
main_parse_data ==
    /\ last = "fastjob" /\ Returned
    /\ last' = "parse_data"
    /\ UNCHANGED <<session, wire, args, locals, frame, cmd, qstart, result, log>>

\* plot_data(data)
main_plot_data ==
    /\ last = "parse_data" /\ Returned
    /\ last' = "plot_data"
    /\ UNCHANGED <<session, wire, args, locals, frame, cmd, qstart, result, log>>

\* pico.disconnect()
main_disconnect ==
    /\ last = "plot_data" /\ Returned
    /\ disconnect

NextMain ==
    \/ \E ok \in BOOLEAN : main_connect(ok)
    \/ main_idn
    \/ \E ok \in BOOLEAN : main_reset(ok)
    \/ main_fastjob
    \/ main_parse_data
    \/ main_plot_data
    \/ main_disconnect
    \/ query_check
    \/ \E ok \in BOOLEAN : query_clear(ok)
    \/ \E ok \in BOOLEAN : query_write(ok)
    \/ query_read_line
    \/ query_read_timeout
    \/ query_read_error
    \/ \E ok \in BOOLEAN : fastjob_write(ok)
    \/ fastjob_query
    \/ fastjob_get_timeout
    \/ fastjob_set_timeout
    \/ fastjob_finally
    \/ fastjob_return
    \/ device_deliver

SpecMain == InitMain /\ [][NextMain]_vars

(***************************************************************************)
(* Properties                                                              *)
(***************************************************************************)
Kinds(ops) == [i \in 1..Len(ops) |-> ops[i].op]

\* the port operations of the query entered last
QueryOps == SubSeq(log, qstart + 1, Len(log))

\* a query has just handed its value to its caller
QueryReturned ==
    \/ op = "idle" /\ last \in {"query", "idn"} /\ result.status = "ok"
    \/ /\ op = "fastjob" /\ qpc = "none" /\ exc = "none"
       /\ pc > 1 /\ Program[pc - 1].kind = "query"

\* the bytes of the line that carries the command text c
Line(c) == encode(c) \o <<13, 10>>

\* C1: every query clears the input buffer, then writes its command, then
\* reads one line: at each point of a query the port operations it has made
\* are the matching prefix of clear, write, read, and a query that returns
\* has made exactly these three, whether called directly, by idn or by fastjob.
C1_QueryClearWriteRead ==
    /\ qpc \in {"check", "clear"} => QueryOps = <<>>
    /\ qpc = "write" => Kinds(QueryOps) = <<"clear">>
    /\ qpc = "read" => /\ Kinds(QueryOps) = <<"clear", "write">>
                       /\ QueryOps[2].data = Line(cmd)
    /\ QueryReturned => /\ Kinds(QueryOps) = <<"clear", "write", "read">>
                        /\ QueryOps[2].data = Line(cmd)
                        /\ \A i \in 1..3 : QueryOps[i].ok
    /\ last = "idn" => cmd = CMD_IDN

\* the TRAC:DATA? query of a fastjob has returned
C1_Witness ==
    /\ last = "fastjob" /\ QueryReturned /\ cmd = CMD_TRAC_DATA
    /\ Kinds(QueryOps) = <<"clear", "write", "read">>

\* the lines fastjob(n_, nplc_) is documented to send, a query marked TRUE
ExpectedCommands(n_, nplc_) == <<
    <<CMD_RST, FALSE>>,
    <<CMD_TRIG_DEL, FALSE>>,
    <<PFX_TRIG_COUN \o str_int(n_), FALSE>>,
    <<PFX_NPLC \o str_float(nplc_), FALSE>>,
    <<CMD_RANG_AUTO, FALSE>>,
    <<CMD_ZCH_OFF, FALSE>>,
    <<CMD_AZER_OFF, FALSE>>,
    <<CMD_DISP_OFF, FALSE>>,
    <<CMD_CLS, FALSE>>,
    <<PFX_TRAC_POIN \o str_int(n_), FALSE>>,
    <<CMD_TRAC_CLE, FALSE>>,
    <<CMD_TRAC_FEED, FALSE>>,
    <<CMD_STAT_MEAS, FALSE>>,
    <<CMD_SRE, FALSE>>,
    <<CMD_OPC, TRUE>>,
    <<CMD_FORM_ELEM, FALSE>>,
    <<CMD_INIT, FALSE>>,
    <<CMD_DISP_ON, FALSE>>,
    <<CMD_TRAC_DATA, TRUE>> >>

\* the lines written in the call, each with whether a read followed it
Transmitted ==
    LET writes == SelectSeq([i \in 1..Len(log) |-> [e |-> log[i], i |-> i]],
                            LAMBDA x : x.e.op = "write")
    IN  [k \in 1..Len(writes) |->
            <<writes[k].e.data,
              writes[k].i < Len(log) /\ log[writes[k].i + 1].op = "read">>]

ExpectedLines(n_, nplc_) ==
    [k \in 1..Len(ExpectedCommands(n_, nplc_)) |->
        <<Line(ExpectedCommands(n_, nplc_)[k][1]), ExpectedCommands(n_, nplc_)[k][2]>>]

FastjobReturned == op = "idle" /\ last = "fastjob" /\ result.status = "ok"

\* C2: a fastjob(n, nplc) that returns has transmitted exactly the nineteen
\* documented command lines, in the documented order, *OPC? and TRAC:DATA?
\* as queries and the others as plain writes.
C2_FastjobCommandSequence ==
    FastjobReturned => Transmitted = ExpectedLines(n, nplc)

\* a fastjob with a two-digit count and a whole number of cycles has returned
C2_Witness ==
    /\ FastjobReturned /\ n = 10 /\ nplc = 100
    /\ Len(Transmitted) = 19

SessionCalls == {"write", "query", "idn", "reset", "fastjob"}

FastjobEnded == op = "idle" /\ last = "fastjob"

\* the positions of the log at which fastjob read self.ser.timeout
Overrides == {i \in 1..Len(log) : log[i].op = "get_timeout"}

\* C3: once fastjob has overridden the read timeout, the timeout of the port
\* after the call is the one read just before the override, whether the data
\* query returned a line, returned nothing after a timeout, or raised; and a
\* data query that raised leaves the call with that same exception.
C3_TimeoutRestored ==
    FastjobEnded =>
        \A i \in Overrides :
            /\ Len(log) > i /\ log[i + 1].op = "set_timeout"
            /\ ser # 0 /\ chan[ser].timeout = log[i].tmo
            /\ (\E j \in (i + 2)..Len(log) : ~log[j].ok)
                  => result = Raised("SerialException")
            /\ (\A j \in (i + 2)..Len(log) : log[j].ok) => result.status = "ok"

\* a fastjob whose data query raised has ended
C3_Witness ==
    /\ FastjobEnded /\ Overrides # {}
    /\ result = Raised("SerialException")
    /\ chan[ser].timeout = timeout

\* C4 (state part): a write, query, idn, reset or fastjob made while the
\* session is not connected performs no port operation and ends with the
\* not-connected error.
C4_Fails ==
    (~connected /\ last \in SessionCalls) =>
        /\ log = <<>>
        /\ op = "idle" => result = Raised("RuntimeError")
        /\ op # "idle" => (qpc = "check" \/ (op = "fastjob" /\ pc = 1 /\ qpc = "none"))

\* C4: a write, query, idn, reset or fastjob invoked while the session is not
\* connected fails with the not-connected error and leaves the connected
\* flag, the handle, the ports and the timeout as they were (a port changes
\* only when the runtime reclaims an object the session has dropped).
C4_NotConnected ==
    /\ []C4_Fails
    /\ [][(~connected /\ last' \in SessionCalls /\ ~finalize)
            => UNCHANGED <<connected, ser, chan, timeout>>]_vars

\* a fastjob made after a disconnect has failed
C4_Witness ==
    /\ ~connected /\ chan # <<>> /\ op = "idle" /\ last = "fastjob"
    /\ result = Raised("RuntimeError")

\* C5: every operation on the port (clear, write, read, reading or setting
\* the timeout) is made through a handle, on an open port, while the session
\* is connected.
C5_NoTransportWhileClosed ==
    \A i \in 1..Len(log) : log[i].conn /\ log[i].ch # 0 /\ log[i].open

\* a query made after a disconnect has ended
C5_Witness ==
    /\ ~connected /\ chan # <<>> /\ ~chan[Len(chan)].open
    /\ op = "idle" /\ last = "query" /\ log = <<>>

C6_Closed ==
    last = "disconnect" =>
        /\ op = "idle"
        /\ result = Ok(<<>>)
        /\ ~connected
        /\ ser = 0

\* C6: disconnect never raises and ends with the connected flag false and no
\* handle, on a session that was never connected as on a connected one, and
\* a disconnect right after a disconnect changes nothing (a port changes only
\* when the runtime reclaims an object the session has dropped).
C6_DisconnectIdempotent ==
    /\ []C6_Closed
    /\ [][(last = "disconnect" /\ last' = "disconnect" /\ ~finalize)
            => UNCHANGED <<connected, ser, chan, timeout, result>>]_vars

\* a disconnect of a connected session has ended
C6_Witness ==
    /\ last = "disconnect" /\ chan # <<>> /\ ~chan[Len(chan)].open
    /\ ~connected /\ ser = 0

\* C7: while fastjob makes the TRAC:DATA? query the read timeout of the port
\* is strictly larger than the timeout it had before the call.
C7_WiderTimeout ==
    (op = "fastjob" /\ Cur.kind = "query" /\ Cur.try) =>
        chan[ser].timeout > old_timeout

Commas(text) == Len(SelectSeq(text, LAMBDA c : c = ","))

\* the read of the data query, in the log of a fastjob that returned
DataRead == log[Len(log) - 1]

\* C8: when fastjob(n) returns and the line its data query read is the
\* instrument's reply to that TRAC:DATA?, the value returned is the payload
\* of n+1 triplets, complete and in order, as carried by that line.
C8_ReturnsPayload ==
    (FastjobReturned /\ DataRead.op = "read" /\ DataRead.fresh) =>
        /\ result.value = Payload(n)
        /\ Commas(result.value) + 1 = 3 * (n + 1)
        /\ DataRead.data = Line(result.value)

\* a fastjob(10) has returned the reply to its TRAC:DATA?
C8_Witness ==
    /\ FastjobReturned /\ DataRead.op = "read" /\ DataRead.fresh
    /\ n = 10 /\ Commas(result.value) = 32
    /\ opc_reply = OPC_TEXT

\* the last port operation was a read that ended by timeout with no bytes
ReadTimedOut ==
    /\ log # <<>>
    /\ log[Len(log)].op = "read" /\ log[Len(log)].ok /\ log[Len(log)].data = <<>>

\* C9: a read that times out with no bytes gives empty text, not an error:
\* query and idn return the empty string, and in fastjob the query returns
\* the empty string to fastjob, which goes on, and fastjob returns the empty
\* string when it was the data query.
C9_TimeoutGivesEmpty ==
    /\ (ReadTimedOut /\ last \in {"query", "idn"}) => (op = "idle" /\ result = Ok(<<>>))
    /\ (ReadTimedOut /\ last = "fastjob") =>
          /\ op = "fastjob" /\ exc = "none" /\ qpc = "none"
          /\ Program[pc - 1].kind = "query"
          /\ Program[pc - 1].dst = "_" => opc_reply = <<>>
          /\ Program[pc - 1].dst = "data" => data = <<>>
    /\ (FastjobReturned /\ DataRead.op = "read" /\ DataRead.data = <<>>) => result = Ok(<<>>)

\* an idn whose read timed out has returned
C9_Witness ==
    /\ ReadTimedOut /\ last = "idn" /\ op = "idle" /\ result = Ok(<<>>)

\* C10: a write(c) or reset on a connected session hands the port exactly one
\* write, of the bytes of c followed by carriage-return and line-feed; and
\* every line written by any call ends with that terminator and holds no
\* other carriage-return or line-feed (stated of the line written last, which
\* every written line once was).
C10_WriteTerminated ==
    /\ (op = "idle" /\ connected /\ last \in {"write", "reset"}) =>
          /\ Len(log) = 1
          /\ log[1].op = "write"
          /\ log[1].data = encode(cmd) \o <<13, 10>>
    /\ (log # <<>> /\ log[Len(log)].op = "write") =>
          LET d == log[Len(log)].data
          IN  /\ Len(d) >= 2 /\ d[Len(d) - 1] = 13 /\ d[Len(d)] = 10
              /\ \A k \in 1..(Len(d) - 2) : d[k] \notin {10, 13}

\* a write("*IDN?") on a connected session has returned
C10_Witness ==
    /\ op = "idle" /\ connected /\ last = "write" /\ cmd = CMD_IDN
    /\ result = Ok(<<>>) /\ Len(log) = 1

\* C11: the line a query returns is the instrument's reply to that query's
\* own command, never a reply left over from an earlier command: every read
\* that yields a line yields the reply the query was waiting for.
C11_NoStaleReply ==
    \A i \in 1..Len(log) :
        (log[i].op = "read" /\ log[i].data # <<>>) => log[i].fresh

\* the instrument still has a command line to execute that the session sent
\* before the *OPC? of the running fastjob
ConfigurationPending ==
    \E i \in 1..Len(dev_in) : dev_in[i].text \notin {CMD_OPC, CMD_FORM_ELEM, CMD_INIT}

\* the step transmits the command text c
Transmits(c) ==
    /\ Len(log') = Len(log) + 1
    /\ log'[Len(log')].op = "write"
    /\ log'[Len(log')].ok
    /\ log'[Len(log')].data = Line(c)

\* C12: *OPC? is a barrier of fastjob: FORM:ELEM READ,TIME,STAT and INIT are
\* transmitted only when the instrument has executed every command line sent
\* before *OPC?, also when the read of *OPC? ended by timeout.
C12_OpcBarrier ==
    [][(op = "fastjob" /\ (Transmits(CMD_FORM_ELEM) \/ Transmits(CMD_INIT)))
            => ~ConfigurationPending]_vars

\* C13: a fastjob that ended before it read the port's timeout ended with an
\* exception; the lines it put on the port are a prefix of the documented
\* sequence that stops before TRAC:DATA?, the operation that failed is the
\* last one and the only one that failed, and the read timeout was the base
\* timeout throughout and still is.
C13_FailurePropagates ==
    (FastjobEnded /\ Overrides = {}) =>
        /\ result.status = "raised"
        /\ LET sent == Transmitted
               expected == ExpectedLines(n, nplc)
           IN  /\ Len(sent) < Len(expected)
               /\ \A k \in 1..Len(sent) : sent[k][1] = expected[k][1]
        /\ \A i \in 1..Len(log) :
               /\ log[i].ok <=> i < Len(log)
               /\ log[i].op # "set_timeout"
               /\ log[i].tmo = timeout
        /\ ser # 0 => chan[ser].timeout = timeout

\* fastjob has raised the error of a write the port refused, after several
\* commands had gone out
C13_Witness ==
    /\ FastjobEnded /\ Overrides = {}
    /\ result = Raised("SerialException")
    /\ Len(log) >= 5
    /\ log[Len(log)].op = "write" /\ ~log[Len(log)].ok

\* the number of writes among the port operations logged
Writes == Cardinality({i \in 1..Len(log) : log[i].op = "write"})

\* C14: rang is inert: the statements fastjob executes are the same for every
\* value of rang, each line it puts on the port is the one the documented
\* sequence for n and nplc has at that position, and no line written is a
\* RANG command.
C14_RangInert ==
    /\ op = "fastjob" =>
           \A a \in FastjobArgs : fastjob_program(n, nplc, a[3]) = Program
    /\ (last = "fastjob" /\ log # <<>> /\ log[Len(log)].op = "write") =>
           /\ Writes <= Len(ExpectedCommands(n, nplc))
           /\ log[Len(log)].data = Line(ExpectedCommands(n, nplc)[Writes][1])
           /\ ~starts_with(log[Len(log)].data, encode(PFX_RANG))

\* a fastjob called with a rang other than the default has returned, and the
\* same call with the default rang is among the calls made
C14_Witness ==
    /\ FastjobReturned /\ rang = 200
    /\ <<n, nplc, 20>> \in FastjobArgs
    /\ Len(Transmitted) = 19

\* fastjob is between its override of the read timeout and the restore
DataQueryInProgress ==
    op = "fastjob" /\ (Cur.kind = "finally" \/ (Cur.kind = "query" /\ Cur.try))

\* C15: the port's read timeout differs from the session's base timeout only
\* while the TRAC:DATA? query of fastjob is in progress: in every other state
\* of a session with a port the two are equal, and every write, clear and
\* read that comes before fastjob reads the timeout ran with the base timeout.
C15_WideOnlyForData ==
    /\ (ser # 0 /\ ~DataQueryInProgress) => chan[ser].timeout = timeout
    /\ \A i \in 1..Len(log) :
           (log[i].op \in {"write", "clear", "read"} /\ \A j \in Overrides : i < j)
               => log[i].tmo = timeout

\* a fastjob has ended whose data read ran with the other timeout, the port
\* is back at the base timeout
C15_Witness ==
    /\ FastjobEnded /\ Overrides # {}
    /\ WideTimeout # timeout
    /\ ser # 0 /\ chan[ser].timeout = timeout
    /\ \E i \in 1..Len(log) : log[i].op = "read" /\ log[i].tmo = WideTimeout
    /\ \E i \in 1..Len(log) : log[i].op = "read" /\ log[i].tmo = timeout

OpenChannels == {i \in 1..Len(chan) : chan[i].open}

\* C16: of the ports the session has opened at most one is open at any time,
\* and none is open once disconnect has returned.
C16_OneChannel ==
    /\ Cardinality(OpenChannels) <= 1
    /\ (op = "idle" /\ last = "disconnect") => OpenChannels = {}

\* the step is a call of connect that raises
ConnectFails == op = "idle" /\ last' = "connect" /\ result'.status = "raised"

\* C17: a connect whose port cannot be opened raises the error of the serial
\* library and leaves the session as it was: the flag, the handle, the base
\* timeout and every port opened so far are unchanged, so a closed session
\* stays closed and a connected one keeps its open port.
C17_FailedConnectKeepsState ==
    [][ConnectFails =>
            /\ result' = Raised("SerialException")
            /\ UNCHANGED <<connected, ser, timeout>>
            /\ Len(chan') = Len(chan)
            /\ ser # 0 => (chan'[ser] = chan[ser] /\ chan'[ser].open)
            /\ connected' <=> ser' # 0]_vars

\* connect has just failed on a session that was connected and still is
C17_Witness ==
    /\ op = "idle" /\ last = "connect"
    /\ result = Raised("SerialException")
    /\ connected /\ ser # 0 /\ chan[ser].open

\* C18: whenever no call is running, the flag connected is set exactly when
\* the session holds a handle, and that handle is an open port; so a write
\* or query that passes its test of the flag has a port to work on.
C18_FlagMatchesHandle ==
    op = "idle" =>
        /\ connected <=> ser # 0
        /\ ser # 0 => chan[ser].open

\* a write has passed its test and put its bytes on the open port, after the
\* session had been closed and connected again
C18_Witness ==
    /\ op = "idle" /\ last \in {"write", "reset"} /\ result.status = "ok"
    /\ connected /\ ser = 2 /\ chan[ser].open
    /\ ~chan[1].open
    /\ log # <<>>

\* an exception has left the call made last and main has no handler for it
Uncaught == op = "idle" /\ result.status = "raised" /\ last # "connect"

\* C19: in main a failed step is reported and the steps that depend on it
\* are skipped: when connect has failed, idn, reset and fastjob are not
\* called; parse_data and plot_data are called only with the data of a
\* fastjob that returned; and no exception leaves main uncaught.
C19_MainSkipsDependents ==
    /\ chan = <<>> => last \in {"none", "connect"}
    /\ last \in {"parse_data", "plot_data"} => result.status = "ok"
    /\ ~Uncaught

====
